---- MODULE Spec2Model ----
(***************************************************************************)
(* Model of the aiexec -> lfx backwards compatibility layer                *)
(* (src/src/backend/base/aiexec/__init__.py).                              *)
(*                                                                         *)
(* Dotted module names are kept split into their parts, so that            *)
(* name.split(".") and ".".join(parts[:-1]) are sequence operations:       *)
(* "aiexec.base.data" is <<"aiexec", "base", "data">>.                      *)
(***************************************************************************)
EXTENDS Naturals, Sequences, FiniteSets, TLC

VARIABLES
    sys_modules,    \* sys.modules: dotted name -> module object
    canon_fs,       \* what the lfx tree holds for each canonical name
    file_fs,        \* what the aiexec tree holds for each aiexec-only file
    pc,             \* position of _setup_compatibility_modules
    idx,            \* index of the loop entry to process next
    passes,         \* how many times _setup_compatibility_modules has started
    next_oid,       \* serial number of the next module object constructed here
    import_calls,   \* per shadow name: calls of importlib.import_module made
    first_seen,     \* per shadow name: attribute -> value of its first read
    mutations,      \* how many times a canonical attribute has been changed
    last,           \* the latest operation and what its caller observed
    threads,        \* per reader thread: its position in an attribute read
    target,         \* the module and attribute the reader threads read
    json,           \* JSONFlowHelper.json["data"]["nodes"]
    flow_last       \* the latest JSONFlowHelper call and what it raised

vars == <<sys_modules, canon_fs, file_fs, pc, idx, passes, next_oid,
          import_calls, first_seen, mutations, last, threads, target, json,
          flow_last>>

----------------------------------------------------------------------------
(* Bounds of the model *)

\* _setup_compatibility_modules may be run again after it has completed
MaxPasses == 2
\* import_module calls followed per shadow module (failed imports retry)
MaxImportCalls == 2
\* changes of a canonical attribute followed
MaxMutations == 2
\* threads that read the same attribute at the same time
NumReaders == 2
\* nodes of a flow
MaxNodes == 2

----------------------------------------------------------------------------
(* Names *)

aiexec == <<"aiexec">>

\* module_mappings, in the order of the dict literal (a sub-tree of it that
\* keeps a top-level entry, a child and the canonical parents they need)
module_mappings ==
    << [aiexec_name |-> <<"aiexec", "base">>,
        lfx_name    |-> <<"lfx", "base">>],
       [aiexec_name |-> <<"aiexec", "base", "data">>,
        lfx_name    |-> <<"lfx", "base", "data">>] >>

\* aiexec_only_modules, in the order of the dict literal (its first entry,
\* whose parent is a name of module_mappings)
aiexec_only_modules ==
    << <<"aiexec", "base", "data", "kb_utils">> >>

ShadowNames == {module_mappings[k].aiexec_name : k \in DOMAIN module_mappings}
OnlyNames == {aiexec_only_modules[k] : k \in DOMAIN aiexec_only_modules}
CanonNames == {<<"lfx">>, <<"lfx", "base">>, <<"lfx", "base", "data">>}

\* ".".join(parts[:-1]) and parts[-1]
ParentName(parts) == SubSeq(parts, 1, Len(parts) - 1)
LastPart(parts) == parts[Len(parts)]

----------------------------------------------------------------------------
(* Values and module objects *)

NoneV == [tag |-> "None", name |-> <<>>, ref |-> 0]
Plain(v) == [tag |-> "val", name |-> <<v>>, ref |-> 0]
Str(parts) == [tag |-> "str", name |-> parts, ref |-> 0]
\* a reference to a module object: its name and its serial number
ModuleRef(m) == [tag |-> "module", name |-> m.name, ref |-> m.oid]

PlainValues == {Plain("v1"), Plain("v2")}

\* the attribute table a module object starts with: ModuleType.__init__(name)
NewDict(parts) == ("__name__" :> Str(parts))

\* AiexecCompatibilityModule.__init__
AiexecCompatibilityModule(name, lfx_module_name, oid) ==
    [cls |-> "AiexecCompatibilityModule", name |-> name, oid |-> oid,
     lfx_module_name |-> lfx_module_name, lfx_module |-> NoneV,
     dict |-> NewDict(name)]

\* a plain module object (types.ModuleType)
ModuleType(name, oid) ==
    [cls |-> "module", name |-> name, oid |-> oid,
     lfx_module_name |-> <<>>, lfx_module |-> NoneV,
     dict |-> NewDict(name)]

\* setattr(module, attr, value)
SetAttr(sm, name, attr, value) ==
    [sm EXCEPT ![name].dict = (attr :> value) @@ @]

----------------------------------------------------------------------------
(* The host import mechanism, as the shim uses it *)

FsKinds == {"absent", "ok", "ImportError", "OtherError"}
LoadKinds == {"absent", "ok", "ImportError", "AttributeError", "OtherError"}

\* the attributes a canonical module defines when it is executed
LfxSource(parts) ==
    IF parts = <<"lfx", "base">>
    THEN ("VALUE" :> Plain("v1")) @@ NewDict(parts)
    ELSE NewDict(parts)

\* importlib.import_module(name) on the registry sm: the parents are imported
\* first, a module already in the registry is not executed again, a module
\* whose execution raises is not left in the registry, and a submodule is
\* bound as an attribute of its parent.  Yields the registry and the
\* exception raised ("None" when the import succeeded).
RECURSIVE import_module(_, _)
import_module(sm, parts) ==
    IF parts \in DOMAIN sm THEN [sm |-> sm, exc |-> "None"]
    ELSE LET up == IF Len(parts) > 1
                   THEN import_module(sm, ParentName(parts))
                   ELSE [sm |-> sm, exc |-> "None"]
         IN  IF up.exc # "None" THEN up
             ELSE IF canon_fs[parts] = "absent"
                  THEN [sm |-> up.sm, exc |-> "ImportError"]
             ELSE IF canon_fs[parts] # "ok"
                  THEN [sm |-> up.sm, exc |-> canon_fs[parts]]
             ELSE LET m == [ModuleType(parts, 0) EXCEPT !.dict = LfxSource(parts)]
                      sm1 == (parts :> m) @@ up.sm
                  IN  [sm |-> IF Len(parts) > 1
                              THEN SetAttr(sm1, ParentName(parts), LastPart(parts),
                                           ModuleRef(m))
                              ELSE sm1,
                       exc |-> "None"]

\* importlib.util.find_spec(name) on the registry sm: for a dotted name the
\* parent is imported, then the name is looked for on the parent's path
\* without being executed.  res is "spec", "None" or the exception raised.
find_spec(sm, parts) ==
    IF parts \in DOMAIN sm THEN [sm |-> sm, res |-> "spec"]
    ELSE LET up == IF Len(parts) > 1
                   THEN import_module(sm, ParentName(parts))
                   ELSE [sm |-> sm, exc |-> "None"]
         IN  IF up.exc # "None" THEN [sm |-> up.sm, res |-> up.exc]
             ELSE IF canon_fs[parts] = "absent"
                  THEN [sm |-> up.sm, res |-> "None"]
                  ELSE [sm |-> up.sm, res |-> "spec"]

----------------------------------------------------------------------------
(* _setup_compatibility_modules *)

\* the names the "special handling for top-level modules" branch tests for
TopLevelNames == {<<"aiexec", "base">>, <<"aiexec", "inputs">>,
                  <<"aiexec", "schema">>, <<"aiexec", "template">>,
                  <<"aiexec", "components">>}

\* lines 124-145 when the new module also takes the modules already
\* registered below its name as attributes
InstallCompatAdopt(sm, oid, aiexec_name, lfx_name) ==
    LET children == {n \in DOMAIN sm : /\ Len(n) = Len(aiexec_name) + 1
                                       /\ SubSeq(n, 1, Len(aiexec_name)) = aiexec_name}
        adopted == [a \in {LastPart(n) : n \in children} |->
                       ModuleRef(sm[Append(aiexec_name, a)])]
        compat_module == AiexecCompatibilityModule(aiexec_name, lfx_name, oid)
        sm1 == (aiexec_name :> [compat_module EXCEPT !.dict = adopted @@ @]) @@ sm
        parent_name == ParentName(aiexec_name)
        sm2 == IF Len(aiexec_name) > 1 /\ parent_name \in DOMAIN sm1
               THEN SetAttr(sm1, parent_name, LastPart(aiexec_name),
                            ModuleRef(compat_module))
               ELSE sm1
    IN  IF aiexec_name \in TopLevelNames
        THEN SetAttr(sm2, aiexec, LastPart(aiexec_name), ModuleRef(compat_module))
        ELSE sm2

\* lines 124-145 without the setattr of lines 128-133
InstallCompatNoLink(sm, oid, aiexec_name, lfx_name) ==
    LET compat_module == AiexecCompatibilityModule(aiexec_name, lfx_name, oid)
        sm1 == (aiexec_name :> compat_module) @@ sm
    IN  IF aiexec_name \in TopLevelNames
        THEN SetAttr(sm1, aiexec, LastPart(aiexec_name), ModuleRef(compat_module))
        ELSE sm1

\* lines 124-145: create the compatibility module, install it, link it
InstallCompat(sm, oid, aiexec_name, lfx_name) ==
    LET compat_module == AiexecCompatibilityModule(aiexec_name, lfx_name, oid)
        sm1 == (aiexec_name :> compat_module) @@ sm
        parent_name == ParentName(aiexec_name)
        sm2 == IF Len(aiexec_name) > 1 /\ parent_name \in DOMAIN sm1
               THEN SetAttr(sm1, parent_name, LastPart(aiexec_name),
                            ModuleRef(compat_module))
               ELSE sm1
    IN  IF aiexec_name \in TopLevelNames
        THEN SetAttr(sm2, aiexec, LastPart(aiexec_name), ModuleRef(compat_module))
        ELSE sm2

\* Register without the "spec is not None" test
RegisterUnprobed(sm, oid, aiexec_name, lfx_name) ==
    IF aiexec_name \in DOMAIN sm
    THEN [sm |-> sm, oid |-> oid, exc |-> "None"]
    ELSE LET probe == find_spec(sm, lfx_name)
         IN  IF probe.res \in {"spec", "None"}
             THEN [sm |-> InstallCompat(probe.sm, oid, aiexec_name, lfx_name),
                   oid |-> oid + 1, exc |-> "None"]
             ELSE IF probe.res \in {"ImportError", "ValueError"}
             THEN [sm |-> probe.sm, oid |-> oid, exc |-> "None"]
             ELSE [sm |-> probe.sm, oid |-> oid, exc |-> probe.res]

\* Register without the "aiexec_name not in sys.modules" test
RegisterAlways(sm, oid, aiexec_name, lfx_name) ==
    LET probe == find_spec(sm, lfx_name)
    IN  IF probe.res = "spec"
        THEN [sm |-> InstallCompat(probe.sm, oid, aiexec_name, lfx_name),
              oid |-> oid + 1, exc |-> "None"]
        ELSE IF probe.res \in {"None", "ImportError", "ValueError"}
        THEN [sm |-> probe.sm, oid |-> oid, exc |-> "None"]
        ELSE [sm |-> probe.sm, oid |-> oid, exc |-> probe.res]

\* one iteration of the first loop (lines 117-148) on registry sm
Register(sm, oid, aiexec_name, lfx_name) ==
    IF aiexec_name \in DOMAIN sm
    THEN [sm |-> sm, oid |-> oid, exc |-> "None"]
    ELSE LET probe == find_spec(sm, lfx_name)
         IN  IF probe.res = "spec"
             THEN [sm |-> InstallCompat(probe.sm, oid, aiexec_name, lfx_name),
                   oid |-> oid + 1, exc |-> "None"]
             ELSE IF probe.res \in {"None", "ImportError", "ValueError"}
             THEN [sm |-> probe.sm, oid |-> oid, exc |-> "None"]
             ELSE [sm |-> probe.sm, oid |-> oid, exc |-> probe.res]

\* what executing an aiexec-only file defines
FileSource(parts) == ("VALUE" :> Plain("v1")) @@ NewDict(parts)

\* the second loop without the test of line 159
LoadOverrideAlways(sm, oid, aiexec_name) ==
    IF file_fs[aiexec_name] = "absent"
    THEN [sm |-> sm, oid |-> oid, exc |-> "None"]
    ELSE LET module == ModuleType(aiexec_name, oid)
             sm1 == (aiexec_name :> module) @@ sm
             parent_name == ParentName(aiexec_name)
         IN  IF file_fs[aiexec_name] = "ok"
             THEN LET sm2 == [sm1 EXCEPT ![aiexec_name].dict = FileSource(aiexec_name)]
                  IN  [sm |-> IF parent_name \in DOMAIN sm2
                              THEN SetAttr(sm2, parent_name, LastPart(aiexec_name),
                                           ModuleRef(module))
                              ELSE sm2,
                       oid |-> oid + 1, exc |-> "None"]
             ELSE IF file_fs[aiexec_name] \in {"ImportError", "AttributeError"}
             THEN [sm |-> sm1, oid |-> oid + 1, exc |-> "None"]
             ELSE [sm |-> sm1, oid |-> oid + 1, exc |-> file_fs[aiexec_name]]

\* one iteration of the second loop (lines 158-211) on registry sm
LoadOverride(sm, oid, aiexec_name) ==
    IF aiexec_name \in DOMAIN sm \/ file_fs[aiexec_name] = "absent"
    THEN [sm |-> sm, oid |-> oid, exc |-> "None"]
    ELSE LET module == ModuleType(aiexec_name, oid)
             sm1 == (aiexec_name :> module) @@ sm
             parent_name == ParentName(aiexec_name)
         IN  IF file_fs[aiexec_name] = "ok"
             THEN LET sm2 == [sm1 EXCEPT ![aiexec_name].dict = FileSource(aiexec_name)]
                  IN  [sm |-> IF parent_name \in DOMAIN sm2
                              THEN SetAttr(sm2, parent_name, LastPart(aiexec_name),
                                           ModuleRef(module))
                              ELSE sm2,
                       oid |-> oid + 1, exc |-> "None"]
             ELSE IF file_fs[aiexec_name] \in {"ImportError", "AttributeError"}
             THEN [sm |-> sm1, oid |-> oid + 1, exc |-> "None"]
             ELSE [sm |-> sm1, oid |-> oid + 1, exc |-> file_fs[aiexec_name]]

\* what the caller of an operation observed; hook tells whether __getattr__ ran
Event(op, node, attr, exc, val, listing, hook) ==
    [op |-> op, node |-> node, attr |-> attr, exc |-> exc, val |-> val,
     listing |-> listing, hook |-> hook]

\* the for statement of lines 117-148, one entry per step
SetupMapping ==
    /\ pc = "mappings"
    /\ LET e == module_mappings[idx]
           r == Register(sys_modules, next_oid, e.aiexec_name, e.lfx_name)
       IN  /\ sys_modules' = r.sm
           /\ next_oid' = r.oid
           /\ last' = Event("register", e.aiexec_name, "", r.exc, NoneV, {}, FALSE)
           /\ IF r.exc # "None" THEN pc' = "raised" /\ idx' = idx
              ELSE IF idx < Len(module_mappings) THEN pc' = pc /\ idx' = idx + 1
              ELSE pc' = "overrides" /\ idx' = 1
    /\ UNCHANGED <<threads, target, json, flow_last,
                   canon_fs, file_fs, passes, import_calls, first_seen, mutations>>

\* the for statement of lines 158-211, one entry per step
SetupOverride ==
    /\ pc = "overrides"
    /\ LET n == aiexec_only_modules[idx]
           r == LoadOverride(sys_modules, next_oid, n)
       IN  /\ sys_modules' = r.sm
           /\ next_oid' = r.oid
           /\ last' = Event("override", n, "", r.exc, NoneV, {}, FALSE)
           /\ IF r.exc # "None" THEN pc' = "raised" /\ idx' = idx
              ELSE IF idx < Len(aiexec_only_modules) THEN pc' = pc /\ idx' = idx + 1
              ELSE pc' = "done" /\ idx' = 1
    /\ UNCHANGED <<threads, target, json, flow_last,
                   canon_fs, file_fs, passes, import_calls, first_seen, mutations>>

\* _setup_compatibility_modules() called again once it has returned
SetupAgain ==
    /\ pc = "done"
    /\ passes < MaxPasses
    /\ pc' = "mappings"
    /\ idx' = 1
    /\ passes' = passes + 1
    /\ last' = Event("setup", <<>>, "", "None", NoneV, {}, FALSE)
    /\ UNCHANGED <<threads, target, json, flow_last,
                   sys_modules, canon_fs, file_fs, next_oid, import_calls, first_seen,
                   mutations>>

----------------------------------------------------------------------------
(* AiexecCompatibilityModule *)

\* _get_lfx_module without the "self._lfx_module is None" test
get_lfx_module_reimport(sm, name) ==
    LET r == import_module(sm, sm[name].lfx_module_name)
    IN  IF r.exc = "None"
        THEN [sm |-> [r.sm EXCEPT ![name].lfx_module =
                          ModuleRef(r.sm[sm[name].lfx_module_name])],
              exc |-> "None", calls |-> 1]
        ELSE [sm |-> r.sm, exc |-> r.exc, calls |-> 1]

\* _get_lfx_module (lines 23-31) of the compatibility module called name.
\* calls is the number of import_module calls it made.
get_lfx_module(sm, name) ==
    IF sm[name].lfx_module # NoneV
    THEN [sm |-> sm, exc |-> "None", calls |-> 0]
    ELSE LET r == import_module(sm, sm[name].lfx_module_name)
         IN  IF r.exc = "None"
             THEN [sm |-> [r.sm EXCEPT ![name].lfx_module =
                               ModuleRef(r.sm[sm[name].lfx_module_name])],
                   exc |-> "None", calls |-> 1]
             ELSE [sm |-> r.sm, exc |-> r.exc, calls |-> 1]

\* __getattr__ without the setattr of line 43
getattr_hook_nocache(sm, name, attr) ==
    LET g == get_lfx_module(sm, name)
    IN  IF g.exc # "None"
        THEN [sm |-> g.sm, exc |-> g.exc, val |-> Str(sm[name].lfx_module_name),
              calls |-> g.calls]
        ELSE LET lfx_module == g.sm[g.sm[name].lfx_module.name]
             IN  IF attr \notin DOMAIN lfx_module.dict
                 THEN [sm |-> g.sm, exc |-> "AttributeError",
                       val |-> sm[name].dict["__name__"], calls |-> g.calls]
                 ELSE [sm |-> g.sm, exc |-> "None", val |-> lfx_module.dict[attr],
                       calls |-> g.calls]

\* __getattr__ that answers None for a missing attribute instead of raising
getattr_hook_default(sm, name, attr) ==
    LET g == get_lfx_module(sm, name)
    IN  IF g.exc # "None"
        THEN [sm |-> g.sm, exc |-> g.exc, val |-> Str(sm[name].lfx_module_name),
              calls |-> g.calls]
        ELSE LET lfx_module == g.sm[g.sm[name].lfx_module.name]
                 attr_value == IF attr \in DOMAIN lfx_module.dict
                               THEN lfx_module.dict[attr] ELSE NoneV
             IN  [sm |-> SetAttr(g.sm, name, attr, attr_value),
                  exc |-> "None", val |-> attr_value, calls |-> g.calls]

\* __getattr__ whose line 43 caches the module instead of the attribute
getattr_hook_cachemodule(sm, name, attr) ==
    LET g == get_lfx_module(sm, name)
    IN  IF g.exc # "None"
        THEN [sm |-> g.sm, exc |-> g.exc, val |-> Str(sm[name].lfx_module_name),
              calls |-> g.calls]
        ELSE LET lfx_module == g.sm[g.sm[name].lfx_module.name]
             IN  IF attr \notin DOMAIN lfx_module.dict
                 THEN [sm |-> g.sm, exc |-> "AttributeError",
                       val |-> sm[name].dict["__name__"], calls |-> g.calls]
                 ELSE [sm |-> SetAttr(g.sm, name, attr, ModuleRef(lfx_module)),
                       exc |-> "None", val |-> lfx_module.dict[attr],
                       calls |-> g.calls]

\* __getattr__ that remembers a missing attribute as None before raising
getattr_hook_negcache(sm, name, attr) ==
    LET g == get_lfx_module(sm, name)
    IN  IF g.exc # "None"
        THEN [sm |-> g.sm, exc |-> g.exc, val |-> Str(sm[name].lfx_module_name),
              calls |-> g.calls]
        ELSE LET lfx_module == g.sm[g.sm[name].lfx_module.name]
             IN  IF attr \notin DOMAIN lfx_module.dict
                 THEN [sm |-> SetAttr(g.sm, name, attr, NoneV),
                       exc |-> "AttributeError",
                       val |-> sm[name].dict["__name__"], calls |-> g.calls]
                 ELSE [sm |-> SetAttr(g.sm, name, attr, lfx_module.dict[attr]),
                       exc |-> "None", val |-> lfx_module.dict[attr],
                       calls |-> g.calls]

\* __getattr__ that drops the imported module when the attribute is missing
getattr_hook_forget(sm, name, attr) ==
    LET g == get_lfx_module(sm, name)
    IN  IF g.exc # "None"
        THEN [sm |-> g.sm, exc |-> g.exc, val |-> Str(sm[name].lfx_module_name),
              calls |-> g.calls]
        ELSE LET lfx_module == g.sm[g.sm[name].lfx_module.name]
             IN  IF attr \notin DOMAIN lfx_module.dict
                 THEN [sm |-> [g.sm EXCEPT ![name].lfx_module = NoneV],
                       exc |-> "AttributeError",
                       val |-> sm[name].dict["__name__"], calls |-> g.calls]
                 ELSE [sm |-> SetAttr(g.sm, name, attr, lfx_module.dict[attr]),
                       exc |-> "None", val |-> lfx_module.dict[attr],
                       calls |-> g.calls]

\* __getattr__ (lines 33-44): called for an attribute the module object does
\* not hold itself
getattr_hook(sm, name, attr) ==
    LET g == get_lfx_module(sm, name)
    IN  IF g.exc # "None"
        THEN [sm |-> g.sm, exc |-> g.exc, val |-> Str(sm[name].lfx_module_name),
              calls |-> g.calls]
        ELSE LET lfx_module == g.sm[g.sm[name].lfx_module.name]
             IN  IF attr \notin DOMAIN lfx_module.dict
                 THEN [sm |-> g.sm, exc |-> "AttributeError",
                       val |-> sm[name].dict["__name__"], calls |-> g.calls]
                 ELSE [sm |-> SetAttr(g.sm, name, attr, lfx_module.dict[attr]),
                       exc |-> "None", val |-> lfx_module.dict[attr],
                       calls |-> g.calls]

\* reading attr of the compatibility module called name: the module's own
\* attribute table is looked at first, __getattr__ only for what it lacks
ReadAttribute(sm, name, attr) ==
    IF attr \in DOMAIN sm[name].dict
    THEN [sm |-> sm, exc |-> "None", val |-> sm[name].dict[attr], calls |-> 0,
          hook |-> FALSE]
    ELSE LET r == getattr_hook(sm, name, attr)
         IN  [sm |-> r.sm, exc |-> r.exc, val |-> r.val, calls |-> r.calls,
              hook |-> TRUE]

\* __dir__ (lines 46-52)
dir_hook(sm, name) ==
    LET g == get_lfx_module(sm, name)
    IN  IF g.exc = "None"
        THEN [sm |-> g.sm, exc |-> "None",
              listing |-> DOMAIN g.sm[g.sm[name].lfx_module.name].dict,
              calls |-> g.calls]
        ELSE IF g.exc = "ImportError"
        THEN [sm |-> g.sm, exc |-> "None", listing |-> {}, calls |-> g.calls]
        ELSE [sm |-> g.sm, exc |-> g.exc, listing |-> {}, calls |-> g.calls]

\* the attribute names consumers read
AttrNames == {"VALUE", "data", "__name__", "nope"}

CompatNames ==
    {n \in DOMAIN sys_modules : sys_modules[n].cls = "AiexecCompatibilityModule"}

\* consumer code reads name.attr
GetAttr(name, attr) ==
    /\ pc = "done"
    /\ name \in CompatNames
    /\ import_calls[name] < MaxImportCalls
    /\ LET r == ReadAttribute(sys_modules, name, attr)
       IN  /\ sys_modules' = r.sm
           /\ import_calls' = [import_calls EXCEPT ![name] = @ + r.calls]
           /\ first_seen' =
                 IF r.exc = "None" /\ attr \notin DOMAIN first_seen[name]
                 THEN [first_seen EXCEPT ![name] = (attr :> r.val) @@ @]
                 ELSE first_seen
           /\ last' = Event("getattr", name, attr, r.exc, r.val, {}, r.hook)
    /\ UNCHANGED <<threads, target, json, flow_last,
                   canon_fs, file_fs, pc, idx, passes, next_oid, mutations>>

\* tooling calls dir(name)
Dir(name) ==
    /\ pc = "done"
    /\ name \in CompatNames
    /\ import_calls[name] < MaxImportCalls
    /\ LET r == dir_hook(sys_modules, name)
       IN  /\ sys_modules' = r.sm
           /\ import_calls' = [import_calls EXCEPT ![name] = @ + r.calls]
           /\ last' = Event("dir", name, "", r.exc, NoneV, r.listing, FALSE)
    /\ UNCHANGED <<threads, target, json, flow_last,
                   canon_fs, file_fs, pc, idx, passes, next_oid, first_seen,
                   mutations>>

\* code of the canonical package rebinds an attribute of a loaded module
Mutate(lfx_name, value) ==
    /\ pc = "done"
    /\ lfx_name \in DOMAIN sys_modules
    /\ mutations < MaxMutations
    /\ IF "VALUE" \in DOMAIN sys_modules[lfx_name].dict
       THEN sys_modules[lfx_name].dict["VALUE"] # value
       ELSE TRUE
    /\ sys_modules' = SetAttr(sys_modules, lfx_name, "VALUE", value)
    /\ mutations' = mutations + 1
    /\ last' = Event("mutate", lfx_name, "VALUE", "None", value, {}, FALSE)
    /\ UNCHANGED <<threads, target, json, flow_last,
                   canon_fs, file_fs, pc, idx, passes, next_oid, import_calls,
                   first_seen>>

\* the threads that read an attribute concurrently, and a thread that has
\* not started its read
Readers == 1..NumReaders
IdleThread == [pc |-> "idle", imported |-> NoneV, lfx_module |-> NoneV,
               attr_value |-> NoneV, exc |-> "None"]

\* no JSONFlowHelper method has been called
NoFlowCall == [op |-> "none", component_id |-> "", key |-> "", value |-> "",
               exc |-> "None", before |-> <<>>]

\* a canonical module exists only inside an existing package
FsClosed(fs) ==
    \A c \in CanonNames :
        Len(c) > 1 /\ fs[c] # "absent" => fs[ParentName(c)] # "absent"

Init ==
    /\ sys_modules = (aiexec :> ModuleType(aiexec, 0))
    /\ canon_fs \in {fs \in [CanonNames -> FsKinds] : FsClosed(fs)}
    /\ file_fs \in [OnlyNames -> LoadKinds]
    /\ pc = "mappings"
    /\ idx = 1
    /\ passes = 1
    /\ next_oid = 1
    /\ import_calls = [s \in ShadowNames |-> 0]
    /\ first_seen = [s \in ShadowNames |-> <<>>]
    /\ mutations = 0
    /\ last = Event("setup", <<>>, "", "None", NoneV, {}, FALSE)
    /\ threads = [t \in Readers |-> IdleThread]
    /\ target = [node |-> <<>>, attr |-> ""]
    /\ json = <<>>
    /\ flow_last = NoFlowCall

Next ==
    \/ SetupMapping
    \/ SetupOverride
    \/ SetupAgain
    \/ \E name \in ShadowNames, attr \in AttrNames : GetAttr(name, attr)
    \/ \E name \in ShadowNames : Dir(name)
    \/ \E lfx_name \in CanonNames \ {<<"lfx">>}, value \in PlainValues :
          Mutate(lfx_name, value)

Spec == Init /\ [][Next]_vars

\* the same program while no canonical attribute is rebound
NextStable ==
    \/ SetupMapping
    \/ SetupOverride
    \/ SetupAgain
    \/ \E name \in ShadowNames, attr \in AttrNames : GetAttr(name, attr)
    \/ \E name \in ShadowNames : Dir(name)

SpecStable == Init /\ [][NextStable]_vars

\* a canonical module that was missing, or whose import raised, becomes
\* importable while the program runs (the package is installed or fixed)
Repair(lfx_name) ==
    /\ pc = "done"
    /\ canon_fs[lfx_name] # "ok"
    /\ Len(lfx_name) > 1 => canon_fs[ParentName(lfx_name)] # "absent"
    /\ canon_fs' = [canon_fs EXCEPT ![lfx_name] = "ok"]
    /\ last' = Event("repair", lfx_name, "", "None", NoneV, {}, FALSE)
    /\ UNCHANGED <<threads, target, json, flow_last,
                   sys_modules, file_fs, pc, idx, passes, next_oid, import_calls,
                   first_seen, mutations>>

\* the program in an environment that can be repaired: consumers read VALUE
\* and the name of the aiexec-only module, and lfx.base.data can gain VALUE
NextRepair ==
    \/ SetupMapping
    \/ SetupOverride
    \/ SetupAgain
    \/ \E name \in ShadowNames, attr \in {"VALUE", "kb_utils"} :
          GetAttr(name, attr)
    \/ Mutate(<<"lfx", "base", "data">>, Plain("v1"))
    \/ \E lfx_name \in CanonNames : Repair(lfx_name)

SpecRepair == Init /\ [][NextRepair]_vars

----------------------------------------------------------------------------
(* Vocabulary of the properties *)

\* the canonical name a registered shadow name forwards to
LfxOf(name) == sys_modules[name].lfx_module_name

\* attr exists on the (loaded) canonical module of the shadow name
ExistsOnCanonical(name, attr) ==
    /\ LfxOf(name) \in DOMAIN sys_modules
    /\ attr \in DOMAIN sys_modules[LfxOf(name)].dict

CanonicalValue(name, attr) == sys_modules[LfxOf(name)].dict[attr]

\* attr of the shadow name is a child module linked in by the hierarchy step
LinkedChild(name, attr) ==
    LET child == Append(name, attr)
    IN  /\ child \in DOMAIN sys_modules
        /\ attr \in DOMAIN sys_modules[name].dict
        /\ sys_modules[name].dict[attr] = ModuleRef(sys_modules[child])

\* the canonical name and all its parents execute without raising
ImportsCleanly(lfx_name) ==
    \A k \in 1..Len(lfx_name) : canon_fs[SubSeq(lfx_name, 1, k)] = "ok"

----------------------------------------------------------------------------
(* C1: transparent forwarding *)

\* C1 as stated: whenever an attribute that exists on the canonical module is
\* read through the shadow module, the read succeeds and yields the very
\* value the canonical module holds for it, child namespaces included.
C1_Transparent ==
    (last.op = "getattr" /\ ExistsOnCanonical(last.node, last.attr))
        => (last.exc = "None" /\ last.val = CanonicalValue(last.node, last.attr))

\* C1 amended: the same, for every attribute that the shadow module does not
\* hold by construction (__name__) and that is not a child module linked into
\* it by the hierarchy step.
C1_TransparentForwarded ==
    (/\ last.op = "getattr"
     /\ ExistsOnCanonical(last.node, last.attr)
     /\ last.attr \notin DOMAIN NewDict(last.node)
     /\ ~LinkedChild(last.node, last.attr))
        => (last.exc = "None" /\ last.val = CanonicalValue(last.node, last.attr))

\* a forwarded attribute read again from the filled attribute table
C1_Witness ==
    /\ last.op = "getattr" /\ last.attr = "VALUE" /\ ~last.hook
    /\ ExistsOnCanonical(last.node, "VALUE")
    /\ last.val = Plain("v1")

----------------------------------------------------------------------------
(* C2: the cache does not invalidate *)

\* C2: every successful read of an attribute through a shadow module returns
\* the value its first successful read returned, whatever the canonical
\* module has been changed to since.
C2_CacheNotInvalidated ==
    (last.op = "getattr" /\ last.exc = "None")
        => (/\ last.attr \in DOMAIN first_seen[last.node]
            /\ last.val = first_seen[last.node][last.attr])

\* a read that returned the first value after the canonical value changed
C2_Witness ==
    /\ last.op = "getattr" /\ last.exc = "None" /\ last.attr = "VALUE"
    /\ mutations > 0
    /\ ExistsOnCanonical(last.node, "VALUE")
    /\ CanonicalValue(last.node, "VALUE") # last.val

----------------------------------------------------------------------------
(* C3: at most one import, no second forwarding *)

\* C3: a shadow module whose canonical module imports cleanly calls
\* import_module at most once, and a read of an attribute that has been read
\* successfully before neither runs __getattr__ nor calls import_module.
C3_OneImport ==
    /\ [](\A name \in CompatNames :
            ImportsCleanly(LfxOf(name)) => import_calls[name] <= 1)
    /\ [][(/\ last'.op = "getattr"
           /\ ImportsCleanly(LfxOf(last'.node))
           /\ last'.attr \in DOMAIN first_seen[last'.node])
             => (~last'.hook /\ import_calls' = import_calls)]_vars

\* a second read of VALUE after the one import the node ever made
C3_Witness ==
    /\ last.op = "getattr" /\ last.attr = "VALUE" /\ ~last.hook
    /\ last.exc = "None"
    /\ import_calls[last.node] = 1
    /\ sys_modules[last.node].lfx_module # NoneV

----------------------------------------------------------------------------
(* C4: registration is idempotent *)

\* C4: a registration step for a shadow name that is already in sys.modules
\* changes nothing (no new module object, same resolved target, same
\* attribute table) and does not raise; and no step ever replaces the module
\* object a shadow name is registered with.
C4_RegisterIdempotent ==
    /\ [][(last'.op = "register" /\ last'.node \in DOMAIN sys_modules)
             => (/\ sys_modules' = sys_modules
                 /\ next_oid' = next_oid
                 /\ last'.exc = "None")]_vars
    /\ [][\A name \in ShadowNames \cap DOMAIN sys_modules :
             /\ name \in DOMAIN sys_modules'
             /\ sys_modules'[name].oid = sys_modules[name].oid]_vars

\* a shadow name registered again after it was resolved and its cache filled
C4_Witness ==
    /\ passes = 2 /\ last.op = "register"
    /\ last.node \in DOMAIN sys_modules
    /\ sys_modules[last.node].lfx_module # NoneV
    /\ "VALUE" \in DOMAIN sys_modules[last.node].dict

----------------------------------------------------------------------------
(* C5: a shadow name whose canonical module does not exist *)

\* the canonical name module_mappings gives for a shadow name
LfxNameOf(aiexec_name) ==
    module_mappings[CHOOSE k \in DOMAIN module_mappings :
                        module_mappings[k].aiexec_name = aiexec_name].lfx_name

\* the canonical module of the shadow name does not exist, inside a package
\* that imports cleanly
MissingInPackage(aiexec_name) ==
    /\ aiexec_name \in ShadowNames
    /\ canon_fs[LfxNameOf(aiexec_name)] = "absent"
    /\ ImportsCleanly(ParentName(LfxNameOf(aiexec_name)))

----------------------------------------------------------------------------
(* C6: a canonical module the probe cannot locate *)

\* C6: a registration step whose probe does not locate the canonical module
\* (find_spec answers None or raises ImportError) leaves sys.modules, and with
\* it every attribute table, as it was and does not raise.
C6_SilentNoOp ==
    [][(/\ last'.op = "register"
        /\ last'.node \notin DOMAIN sys_modules
        /\ find_spec(sys_modules, LfxNameOf(last'.node)).res
              \in {"None", "ImportError"})
          => (sys_modules' = sys_modules /\ last'.exc = "None")]_vars

----------------------------------------------------------------------------
(* C7: an attribute the canonical module does not have *)

\* C7 as stated: reading through a registered shadow module an attribute that
\* its (imported) canonical module does not have raises AttributeError with
\* the shadow module's name in the message.
C7_MissingAttribute ==
    (/\ last.op = "getattr"
     /\ LfxOf(last.node) \in DOMAIN sys_modules
     /\ ~ExistsOnCanonical(last.node, last.attr))
        => (last.exc = "AttributeError" /\ last.val = Str(last.node))

\* C7 amended: the same for an attribute that was not in the shadow module's
\* own attribute table either (set at construction, linked by the hierarchy
\* step, or cached) when it was read, so that the read reached __getattr__.
C7_MissingAttributeForwarded ==
    (/\ last.op = "getattr"
     /\ last.hook
     /\ LfxOf(last.node) \in DOMAIN sys_modules
     /\ ~ExistsOnCanonical(last.node, last.attr))
        => (last.exc = "AttributeError" /\ last.val = Str(last.node))

\* an attribute absent everywhere was read through a resolved shadow module
C7_Witness ==
    /\ last.op = "getattr" /\ last.attr = "nope" /\ last.hook
    /\ sys_modules[last.node].lfx_module # NoneV
    /\ last.exc = "AttributeError"

----------------------------------------------------------------------------
(* C8: deferred import failure *)

\* C8: when __getattr__ runs for a registered shadow module whose canonical
\* module does not import, the caller gets ImportError.
C8_DeferredResolutionError ==
    (/\ last.op = "getattr" /\ last.hook
     /\ ~ImportsCleanly(LfxOf(last.node)))
        => last.exc = "ImportError"

----------------------------------------------------------------------------
(* C9: __dir__ *)

\* C9: dir() of a shadow module never raises; it is the canonical module's
\* listing when the canonical module imports and empty when it does not.
C9_DirNeverRaises ==
    last.op = "dir"
        => (/\ last.exc = "None"
            /\ last.listing =
                  IF ImportsCleanly(LfxOf(last.node))
                  THEN DOMAIN sys_modules[LfxOf(last.node)].dict
                  ELSE {})

----------------------------------------------------------------------------
(* C10: setup does not raise *)

\* C10: whichever canonical modules exist (each one that exists importing
\* cleanly), whether or not the aiexec-only file exists, and whether loading
\* it succeeds or fails, _setup_compatibility_modules never propagates an
\* exception to its caller.
C10_SetupCompletes ==
    (\A lfx_name \in CanonNames : canon_fs[lfx_name] \in {"absent", "ok"})
        => pc # "raised"

----------------------------------------------------------------------------
(* C11: an aiexec-only module that cannot be loaded *)

\* the parent of name has an attribute for it
HasParentLink(name) ==
    /\ ParentName(name) \in DOMAIN sys_modules
    /\ LastPart(name) \in DOMAIN sys_modules[ParentName(name)].dict

\* C11: after the second loop has handled an aiexec-only module whose file is
\* absent or whose loading fails, sys.modules has no entry for its name and
\* its parent has no attribute for it.
C11_FailedOverrideSkipped ==
    (last.op = "override" /\ file_fs[last.node] # "ok")
        => (last.node \notin DOMAIN sys_modules /\ ~HasParentLink(last.node))

----------------------------------------------------------------------------
(* C12: an aiexec-only module already in sys.modules *)

\* C12: a step of the second loop for a name that is already in sys.modules
\* constructs no module and executes no file (next_oid counts the modules
\* constructed) and leaves every entry of sys.modules, that name's included,
\* the same object with the same attributes.
C12_OverrideIdempotent ==
    [][(last'.op = "override" /\ last'.node \in DOMAIN sys_modules)
          => (sys_modules' = sys_modules /\ next_oid' = next_oid)]_vars

\* a later pass came to the aiexec-only module that an earlier pass loaded
C12_Witness ==
    /\ last.op = "override" /\ passes > 1
    /\ last.node \in DOMAIN sys_modules
    /\ file_fs[last.node] = "ok"
    /\ sys_modules[last.node].dict = FileSource(last.node)

----------------------------------------------------------------------------
(* C13: what the probe of line 121 loads *)

\* C13: a canonical module is in sys.modules only once __getattr__ or __dir__
\* of some shadow module has asked for its canonical module; the setup pass
\* by itself imports none.
C13_ProbeDoesNotLoad ==
    (\E lfx_name \in CanonNames : lfx_name \in DOMAIN sys_modules)
        => (\E name \in ShadowNames : import_calls[name] > 0)

----------------------------------------------------------------------------
(* C15: the hierarchy step *)

\* the attribute of name's parent that carries name's last part is the very
\* module registered under name
Linked(sm, name) ==
    /\ name \in DOMAIN sm
    /\ ParentName(name) \in DOMAIN sm
    /\ LastPart(name) \in DOMAIN sm[ParentName(name)].dict
    /\ sm[ParentName(name)].dict[LastPart(name)] = ModuleRef(sm[name])

\* a step puts a compatibility module, or a successfully loaded aiexec-only
\* module, under name while name's parent is in sys.modules
InstalledUnderParent(name) ==
    /\ name \notin DOMAIN sys_modules
    /\ name \in DOMAIN sys_modules'
    /\ ParentName(name) \in DOMAIN sys_modules
    /\ name \in OnlyNames => file_fs[name] = "ok"

\* C15: when a step of the first loop creates the compatibility module of
\* p.c, or a step of the second loop successfully loads p.c, and sys.modules
\* holds p at that moment, then after the step the attribute c of
\* sys.modules[p] is the module stored under p.c; and it stays so.
C15_HierarchyLinked ==
    [][\A name \in ShadowNames \cup OnlyNames :
          /\ InstalledUnderParent(name) => Linked(sys_modules', name)
          /\ Linked(sys_modules, name) => Linked(sys_modules', name)]_vars

\* both a nested compatibility module and the aiexec-only module below it
\* are attributes of their parents
C15_Witness ==
    /\ Linked(sys_modules, <<"aiexec", "base", "data">>)
    /\ Linked(sys_modules, <<"aiexec", "base", "data", "kb_utils">>)
    /\ sys_modules[<<"aiexec", "base", "data">>].cls = "AiexecCompatibilityModule"

----------------------------------------------------------------------------
(* C17: the state of a compatibility module only grows *)

\* C17: a compatibility module is created with _lfx_module None and nothing
\* cached; once in sys.modules it stays the same object, its _lfx_module once
\* set is never cleared or replaced, and no attribute name leaves its
\* attribute table, whatever setup pass, attribute read, dir() or rebinding
\* of a canonical attribute comes next.
C17_NodeStateGrows ==
    [][\A name \in ShadowNames :
          /\ (name \notin DOMAIN sys_modules /\ name \in DOMAIN sys_modules')
                => /\ sys_modules'[name].lfx_module = NoneV
                   /\ sys_modules'[name].dict = NewDict(name)
          /\ name \in DOMAIN sys_modules
                => /\ name \in DOMAIN sys_modules'
                   /\ sys_modules'[name].oid = sys_modules[name].oid
                   /\ sys_modules[name].lfx_module # NoneV
                         => sys_modules'[name].lfx_module = sys_modules[name].lfx_module
                   /\ DOMAIN sys_modules[name].dict
                         \subseteq DOMAIN sys_modules'[name].dict]_vars

\* dir() was called on a compatibility module that had already imported its
\* canonical module and cached an attribute
C17_Witness ==
    /\ last.op = "dir"
    /\ sys_modules[last.node].lfx_module # NoneV
    /\ "VALUE" \in DOMAIN sys_modules[last.node].dict
    /\ import_calls[last.node] = 1

----------------------------------------------------------------------------
(* C16: a child registered while its parent is not *)

\* a step puts a compatibility module, or a successfully loaded aiexec-only
\* module, under name while name's parent is not in sys.modules
InstalledWithoutParent(name) ==
    /\ name \notin DOMAIN sys_modules
    /\ name \in DOMAIN sys_modules'
    /\ ParentName(name) \notin DOMAIN sys_modules
    /\ name \in OnlyNames => file_fs[name] = "ok"

\* the step reads, on name's parent, the attribute called after name
ReadsThroughParent(name) ==
    /\ last'.op = "getattr"
    /\ last'.node = ParentName(name)
    /\ last'.attr = LastPart(name)

\* C16: the first loop takes the entries of module_mappings in their order;
\* a module installed while its parent is not in sys.modules is in
\* sys.modules under its own dotted name, the step raises nothing, and the
\* module is not an attribute of its parent: neither then nor after the
\* parent has been registered, and reading it through the parent never
\* answers it.
C16_OrderDependentLinking ==
    [][/\ (pc = "mappings" /\ pc' = "mappings" /\ last'.op = "register")
             => (last'.node = module_mappings[idx].aiexec_name /\ idx' = idx + 1)
       /\ \A name \in ShadowNames \cup OnlyNames :
            /\ InstalledWithoutParent(name)
                  => /\ last'.exc = "None"
                     /\ pc' # "raised"
                     /\ ~Linked(sys_modules', name)
            /\ (name \in DOMAIN sys_modules /\ ~Linked(sys_modules, name))
                  => /\ name \in DOMAIN sys_modules'
                     /\ ~Linked(sys_modules', name)
                     /\ ReadsThroughParent(name)
                           => \/ last'.exc # "None"
                              \/ last'.val # ModuleRef(sys_modules[name])]_vars

\* the aiexec-only module was loaded while aiexec.base.data was not
\* registered; aiexec.base.data was registered by a later pass, and reading
\* kb_utils through it did not find the module
C16_Witness ==
    /\ last.op = "getattr" /\ last.attr = "kb_utils"
    /\ last.node = <<"aiexec", "base", "data">>
    /\ last.exc = "AttributeError"
    /\ Append(last.node, last.attr) \in DOMAIN sys_modules
    /\ sys_modules[Append(last.node, last.attr)].dict
          = FileSource(Append(last.node, last.attr))
    /\ ~Linked(sys_modules, Append(last.node, last.attr))

----------------------------------------------------------------------------
(* C18: a failed attribute read *)

\* the read that has just been made went through __getattr__ of a
\* compatibility module whose canonical module imports and has the attribute
ReadOfAvailable ==
    /\ last.op = "getattr" /\ last.hook
    /\ ImportsCleanly(LfxOf(last.node))
    /\ ExistsOnCanonical(last.node, last.attr)

\* C18: a read through __getattr__ that raises ImportError leaves the
\* compatibility module without _lfx_module and with the same attribute
\* table; one that raises AttributeError leaves the attribute table the same;
\* and whatever failed before, a read through __getattr__ made when the
\* canonical module imports and has the attribute answers the canonical
\* value.
C18_FailureNotRemembered ==
    [][/\ (last'.op = "getattr" /\ last'.hook /\ last'.exc = "ImportError")
             => /\ sys_modules'[last'.node].lfx_module = NoneV
                /\ sys_modules'[last'.node].dict = sys_modules[last'.node].dict
       /\ (last'.op = "getattr" /\ last'.hook /\ last'.exc = "AttributeError")
             => sys_modules'[last'.node].dict = sys_modules[last'.node].dict
       /\ ReadOfAvailable'
             => /\ last'.exc = "None"
                /\ last'.val = CanonicalValue(last.node, last.attr)']_vars

\* a read succeeded on the second import attempt of its compatibility
\* module: the first attempt had failed
C18_Witness ==
    /\ last.op = "getattr" /\ last.hook /\ last.exc = "None"
    /\ import_calls[last.node] = 2
    /\ last.attr \in DOMAIN sys_modules[last.node].dict

----------------------------------------------------------------------------
(* Threads reading the same attribute of the same compatibility module.    *)
(* A thread can be switched between any two of the steps below; each step  *)
(* is one dictionary operation, or one import_module call, which the       *)
(* import lock makes atomic for the threads that import the same module.   *)

main_vars == <<canon_fs, file_fs, pc, idx, passes, next_oid, first_seen,
               mutations, last, target, json, flow_last>>

\* setattr(self, name, attr) of line 43 storing the module's own name
CacheNameInstead(sm, name, attr, attr_value) ==
    SetAttr(sm, name, attr, Str(name))

\* setattr(self, name, attr) of line 43
CacheAttr(sm, name, attr, attr_value) ==
    SetAttr(sm, name, attr, attr_value)

\* thread t reads target.attr of the module: the module's own attribute
\* table is looked at first, __getattr__ (line 33) is entered on a miss
AttributeLookup(t) ==
    /\ pc = "done"
    /\ threads[t].pc = "idle"
    /\ target.node \in CompatNames
    /\ threads' = [threads EXCEPT ![t] =
          IF target.attr \in DOMAIN sys_modules[target.node].dict
          THEN [@ EXCEPT !.pc = "returned",
                         !.attr_value = sys_modules[target.node].dict[target.attr]]
          ELSE [@ EXCEPT !.pc = "check"]]
    /\ UNCHANGED <<sys_modules, import_calls, main_vars>>

\* line 25: if self._lfx_module is None
CheckResolved(t) ==
    /\ threads[t].pc = "check"
    /\ threads' = [threads EXCEPT ![t].pc =
          IF sys_modules[target.node].lfx_module = NoneV
          THEN "import" ELSE "return_module"]
    /\ UNCHANGED <<sys_modules, import_calls, main_vars>>

\* line 27, right-hand side: importlib.import_module(self._lfx_module_name)
ImportCanonical(t) ==
    /\ threads[t].pc = "import"
    /\ LET lfx_name == sys_modules[target.node].lfx_module_name
           r == import_module(sys_modules, lfx_name)
       IN  /\ sys_modules' = r.sm
           /\ threads' = [threads EXCEPT ![t] =
                 IF r.exc = "None"
                 THEN [@ EXCEPT !.pc = "store",
                                !.imported = ModuleRef(r.sm[lfx_name])]
                 ELSE [@ EXCEPT !.pc = "returned", !.exc = r.exc]]
    /\ import_calls' = [import_calls EXCEPT ![target.node] = @ + 1]
    /\ UNCHANGED main_vars

\* line 27, assignment: self._lfx_module = ...
StoreResolved(t) ==
    /\ threads[t].pc = "store"
    /\ sys_modules' = [sys_modules EXCEPT ![target.node].lfx_module =
                          threads[t].imported]
    /\ threads' = [threads EXCEPT ![t].pc = "return_module"]
    /\ UNCHANGED <<import_calls, main_vars>>

\* line 31: return self._lfx_module
ReturnResolved(t) ==
    /\ threads[t].pc = "return_module"
    /\ threads' = [threads EXCEPT ![t] =
          [@ EXCEPT !.pc = "getattr",
                    !.lfx_module = sys_modules[target.node].lfx_module]]
    /\ UNCHANGED <<sys_modules, import_calls, main_vars>>

\* lines 36-41: attr = getattr(lfx_module, name), AttributeError re-raised
LookupCanonical(t) ==
    /\ threads[t].pc = "getattr"
    /\ LET lfx_module == sys_modules[threads[t].lfx_module.name]
       IN  threads' = [threads EXCEPT ![t] =
              IF target.attr \in DOMAIN lfx_module.dict
              THEN [@ EXCEPT !.pc = "setattr",
                             !.attr_value = lfx_module.dict[target.attr]]
              ELSE [@ EXCEPT !.pc = "returned", !.exc = "AttributeError"]]
    /\ UNCHANGED <<sys_modules, import_calls, main_vars>>

\* lines 43-44: setattr(self, name, attr); return attr
CacheAttribute(t) ==
    /\ threads[t].pc = "setattr"
    /\ sys_modules' = CacheAttr(sys_modules, target.node, target.attr,
                                threads[t].attr_value)
    /\ threads' = [threads EXCEPT ![t].pc = "returned"]
    /\ UNCHANGED <<import_calls, main_vars>>

\* the package has been imported where every canonical module imports, and
\* the threads are about to read one attribute of one shadow name
InitThreads ==
    /\ sys_modules = (aiexec :> ModuleType(aiexec, 0))
    /\ canon_fs = [c \in CanonNames |-> "ok"]
    /\ file_fs \in [OnlyNames -> {"absent", "ok"}]
    /\ pc = "mappings"
    /\ idx = 1
    /\ passes = 1
    /\ next_oid = 1
    /\ import_calls = [s \in ShadowNames |-> 0]
    /\ first_seen = [s \in ShadowNames |-> <<>>]
    /\ mutations = 0
    /\ last = Event("setup", <<>>, "", "None", NoneV, {}, FALSE)
    /\ threads = [t \in Readers |-> IdleThread]
    /\ target \in [node : ShadowNames, attr : {"VALUE", "nope"}]
    /\ json = <<>>
    /\ flow_last = NoFlowCall

NextThreads ==
    \/ SetupMapping
    \/ SetupOverride
    \/ \E t \in Readers : AttributeLookup(t)
    \/ \E t \in Readers : CheckResolved(t)
    \/ \E t \in Readers : ImportCanonical(t)
    \/ \E t \in Readers : StoreResolved(t)
    \/ \E t \in Readers : ReturnResolved(t)
    \/ \E t \in Readers : LookupCanonical(t)
    \/ \E t \in Readers : CacheAttribute(t)

SpecThreads == InitThreads /\ [][NextThreads]_vars

----------------------------------------------------------------------------
(* C14: concurrent first access *)

\* the canonical module of the threads' target defines the attribute
TargetExists == target.attr \in DOMAIN LfxSource(LfxNameOf(target.node))
TargetValue == LfxSource(LfxNameOf(target.node))[target.attr]

\* C14: when the threads read an attribute that the canonical module has,
\* then however their steps interleave every thread that has returned got
\* the canonical value and no exception; the compatibility module never
\* holds another value for the attribute nor another module than the
\* canonical one as _lfx_module; and once all have returned it holds both,
\* its attribute table having gained that one name only.
C14_ConcurrentFirstAccess ==
    (pc = "done" /\ target.node \in CompatNames /\ TargetExists) =>
        LET node == sys_modules[target.node]
        IN  /\ \A t \in Readers :
                  threads[t].pc = "returned"
                     => (threads[t].exc = "None"
                            /\ threads[t].attr_value = TargetValue)
            /\ target.attr \in DOMAIN node.dict
                  => node.dict[target.attr] = TargetValue
            /\ node.lfx_module # NoneV
                  => node.lfx_module = ModuleRef(sys_modules[LfxOf(target.node)])
            /\ (\A t \in Readers : threads[t].pc = "returned")
                  => /\ target.attr \in DOMAIN node.dict
                     /\ node.lfx_module # NoneV
                     /\ \A a \in DOMAIN node.dict \ {target.attr} :
                           a = "__name__" \/ LinkedChild(target.node, a)

\* all threads found _lfx_module None, each made its own import_module call
\* and its own writes, and all have returned
C14_Witness ==
    /\ TargetExists
    /\ \A t \in Readers : threads[t].pc = "returned" /\ threads[t].exc = "None"
    /\ target.node \in DOMAIN sys_modules
    /\ import_calls[target.node] = NumReaders

----------------------------------------------------------------------------
(* JSONFlowHelper (src/src/backend/tests/integration/utils.py).  json is   *)
(* the list self.json["data"]["nodes"]; a node is its id and its           *)
(* node["data"]["node"]["template"], a table from input names to fields.   *)

ComponentIds == {"a", "b"}
Keys == {"k1", "k2"}
InputValues == {"x", "y"}

\* the fields of a template entry before any input is set
Fields == [value : {"x"}, load_from_db : BOOLEAN]

Templates ==
    UNION {[ks -> Fields] : ks \in SUBSET Keys}

FlowNodes == [id : ComponentIds, template : Templates]

Flows == UNION {[1..n -> FlowNodes] : n \in 0..MaxNodes}

\* set_component_input whose loop goes on after the first node with the id
set_component_input_every(nodes, component_id, key, value) ==
    LET hits == {k \in 1..Len(nodes) : nodes[k].id = component_id}
    IN  IF hits = {}
        THEN [json |-> nodes, exc |-> "ValueError"]
        ELSE IF \E k \in hits : key \notin DOMAIN nodes[k].template
        THEN [json |-> nodes, exc |-> "ValueError"]
        ELSE [json |-> [k \in 1..Len(nodes) |->
                          IF k \in hits
                          THEN [nodes[k] EXCEPT
                                   !.template[key].value = value,
                                   !.template[key].load_from_db = FALSE]
                          ELSE nodes[k]],
              exc |-> "None"]

\* JSONFlowHelper.set_component_input (lines 47-57): the first node whose id
\* is component_id is the one looked at
set_component_input(nodes, component_id, key, value) ==
    LET hits == {k \in 1..Len(nodes) : nodes[k].id = component_id}
    IN  IF hits = {}
        THEN [json |-> nodes, exc |-> "ValueError"]
        ELSE LET k == CHOOSE k \in hits : \A j \in hits : k <= j
             IN  IF key \notin DOMAIN nodes[k].template
                 THEN [json |-> nodes, exc |-> "ValueError"]
                 ELSE [json |-> [nodes EXCEPT
                                    ![k].template[key].value = value,
                                    ![k].template[key].load_from_db = FALSE],
                       exc |-> "None"]

\* a test calls helper.set_component_input(component_id, key, value)
SetComponentInput(component_id, key, value) ==
    /\ flow_last.op = "none"
    /\ LET r == set_component_input(json, component_id, key, value)
       IN  /\ json' = r.json
           /\ flow_last' = [op |-> "set_component_input",
                            component_id |-> component_id, key |-> key,
                            value |-> value, exc |-> r.exc, before |-> json]
    /\ UNCHANGED <<sys_modules, canon_fs, file_fs, pc, idx, passes, next_oid,
                   import_calls, first_seen, mutations, last, threads, target>>

\* a helper built on any flow of up to MaxNodes nodes
InitFlow ==
    /\ sys_modules = (aiexec :> ModuleType(aiexec, 0))
    /\ canon_fs = [c \in CanonNames |-> "absent"]
    /\ file_fs = [n \in OnlyNames |-> "absent"]
    /\ pc = "done"
    /\ idx = 1
    /\ passes = 1
    /\ next_oid = 1
    /\ import_calls = [s \in ShadowNames |-> 0]
    /\ first_seen = [s \in ShadowNames |-> <<>>]
    /\ mutations = 0
    /\ last = Event("setup", <<>>, "", "None", NoneV, {}, FALSE)
    /\ threads = [t \in Readers |-> IdleThread]
    /\ target = [node |-> <<>>, attr |-> ""]
    /\ json \in Flows
    /\ flow_last = NoFlowCall

NextFlow ==
    \E component_id \in ComponentIds, key \in Keys, value \in InputValues :
        SetComponentInput(component_id, key, value)

SpecFlow == InitFlow /\ [][NextFlow]_vars

----------------------------------------------------------------------------
(* C19: set_component_input *)

\* the positions of the nodes of the flow before the call that carry the id
\* of the call, and the first of them
Hits == {k \in 1..Len(flow_last.before) :
            flow_last.before[k].id = flow_last.component_id}
FirstHit == CHOOSE k \in Hits : \A j \in Hits : k <= j

\* C19: after set_component_input(id, key, value): if some node has the id
\* and the first such node's template has the key, nothing is raised, that
\* node's template[key] has value and load_from_db False, and every other
\* node, every other key of that node and its id are as before; otherwise
\* ValueError is raised and the flow is as before.
C19_SetComponentInput ==
    flow_last.op = "set_component_input" =>
        IF Hits # {} /\ flow_last.key \in DOMAIN flow_last.before[FirstHit].template
        THEN /\ flow_last.exc = "None"
             /\ Len(json) = Len(flow_last.before)
             /\ \A k \in 1..Len(json) : k # FirstHit => json[k] = flow_last.before[k]
             /\ json[FirstHit].id = flow_last.before[FirstHit].id
             /\ DOMAIN json[FirstHit].template
                   = DOMAIN flow_last.before[FirstHit].template
             /\ \A key \in DOMAIN json[FirstHit].template :
                   key # flow_last.key
                      => json[FirstHit].template[key]
                            = flow_last.before[FirstHit].template[key]
             /\ json[FirstHit].template[flow_last.key].value = flow_last.value
             /\ json[FirstHit].template[flow_last.key].load_from_db = FALSE
        ELSE /\ flow_last.exc = "ValueError"
             /\ json = flow_last.before

\* an input was set on the first of two nodes with the same id, which had
\* another key and load_from_db True
C19_Witness ==
    /\ flow_last.op = "set_component_input" /\ flow_last.exc = "None"
    /\ Cardinality(Hits) > 1
    /\ flow_last.before[FirstHit].template[flow_last.key].load_from_db
    /\ flow_last.before[FirstHit].template[flow_last.key].value # flow_last.value
    /\ DOMAIN flow_last.before[FirstHit].template = Keys

====
